---- MODULE Spec2Model ----
(***************************************************************************)
(* RusticDB (src/main.rs): a document store over a key-value engine with   *)
(* add / get / search handlers and an ad-hoc query language.               *)
(*                                                                         *)
(* Text (Rust String / &str / byte slices) is a sequence of one-character  *)
(* strings.  A serde_json::Value is a record [t, s, c]: t is the variant,  *)
(* s the text of a number, boolean or string, c the children of an array   *)
(* or object as a sequence of [k, v] (objects: sorted by key, as the       *)
(* BTreeMap behind serde_json::Map keeps them).                            *)
(***************************************************************************)
EXTENDS Integers, Sequences, FiniteSets, TLC

----------------------------------------------------------------------------
(* Characters *)

QUOTE == "\""
BACKSLASH == "\\"

DigitChars == <<"0", "1", "2", "3", "4", "5", "6", "7", "8", "9">>

LetterChars ==
    <<"a", "b", "c", "d", "e", "f", "g", "h", "i", "j", "k", "l", "m",
      "n", "o", "p", "q", "r", "s", "t", "u", "v", "w", "x", "y", "z">>

\* The characters of the model in byte order (the order of str's Ord).
CharOrder ==
    <<" ", QUOTE, "+", ",", "-", ".">> \o DigitChars
      \o <<":", "<", ">", "[", BACKSLASH, "]">> \o LetterChars \o <<"{", "}">>

Range(f) == {f[i] : i \in DOMAIN f}

IsDigit(ch) == ch \in Range(DigitChars)

DigitVal(ch) == (CHOOSE i \in DOMAIN DigitChars : DigitChars[i] = ch) - 1

\* char::is_alphanumeric
is_alphanumeric(ch) == ch \in Range(DigitChars) \cup Range(LetterChars)

\* char::is_whitespace, as str::trim and str::trim_start use it
is_whitespace(ch) == ch = " "

CharCode(ch) == CHOOSE i \in DOMAIN CharOrder : CharOrder[i] = ch

\* a < b for two texts, byte-lexicographic
RECURSIVE StrLess(_, _)
StrLess(a, b) ==
    IF b = <<>> THEN FALSE
    ELSE IF a = <<>> THEN TRUE
    ELSE IF Head(a) = Head(b) THEN StrLess(Tail(a), Tail(b))
    ELSE CharCode(Head(a)) < CharCode(Head(b))

----------------------------------------------------------------------------
(* serde_json::Value *)

Null == [t |-> "null", s |-> <<>>, c |-> <<>>]
Bool(b) ==
    [t |-> "bool",
     s |-> IF b THEN <<"t", "r", "u", "e">> ELSE <<"f", "a", "l", "s", "e">>,
     c |-> <<>>]
Num(text) == [t |-> "num", s |-> text, c |-> <<>>]
Str(text) == [t |-> "str", s |-> text, c |-> <<>>]
Arr(vs) ==
    [t |-> "arr", s |-> <<>>,
     c |-> [i \in 1..Len(vs) |-> [k |-> <<>>, v |-> vs[i]]]]
Obj(members) == [t |-> "obj", s |-> <<>>, c |-> members]

Member(key, val) == [k |-> key, v |-> val]

\* Map::insert on the sorted member list: a present key is overwritten
RECURSIVE MapInsert(_, _, _)
MapInsert(members, key, val) ==
    IF members = <<>> THEN <<Member(key, val)>>
    ELSE IF Head(members).k = key THEN <<Member(key, val)>> \o Tail(members)
    ELSE IF StrLess(key, Head(members).k) THEN <<Member(key, val)>> \o members
    ELSE <<Head(members)>> \o MapInsert(Tail(members), key, val)

\* Value::get(&str): an object's member, None for a missing key and for
\* every value that is not an object
HasKey(v, key) == v.t = "obj" /\ \E i \in DOMAIN v.c : v.c[i].k = key
ValueGet(v, key) == v.c[CHOOSE i \in DOMAIN v.c : v.c[i].k = key].v

----------------------------------------------------------------------------
(* serde_json::to_string *)

RECURSIVE Escape(_)
Escape(text) ==
    IF text = <<>> THEN <<>>
    ELSE (IF Head(text) \in {QUOTE, BACKSLASH}
          THEN <<BACKSLASH, Head(text)>>
          ELSE <<Head(text)>>) \o Escape(Tail(text))

Quoted(text) == <<QUOTE>> \o Escape(text) \o <<QUOTE>>

RECURSIVE to_string(_), children_to_string(_, _, _)
to_string(v) ==
    CASE v.t = "null" -> <<"n", "u", "l", "l">>
      [] v.t = "bool" -> v.s
      [] v.t = "num" -> v.s
      [] v.t = "str" -> Quoted(v.s)
      [] v.t = "arr" -> <<"[">> \o children_to_string(v.c, 1, FALSE) \o <<"]">>
      [] v.t = "obj" -> <<"{">> \o children_to_string(v.c, 1, TRUE) \o <<"}">>

children_to_string(c, i, keyed) ==
    IF i > Len(c) THEN <<>>
    ELSE (IF i > 1 THEN <<",">> ELSE <<>>)
         \o (IF keyed THEN Quoted(c[i].k) \o <<":">> ELSE <<>>)
         \o to_string(c[i].v)
         \o children_to_string(c, i + 1, keyed)

----------------------------------------------------------------------------
(* serde_json::from_slice::<Value> *)

Fail == [ok |-> FALSE, v |-> Null, i |-> 0]
Parsed(v, i) == [ok |-> TRUE, v |-> v, i |-> i]

At(b, i) == IF i \in 1..Len(b) THEN b[i] ELSE "EOF"

RECURSIVE skip_ws(_, _)
skip_ws(b, i) == IF is_whitespace(At(b, i)) THEN skip_ws(b, i + 1) ELSE i

parse_ident(b, i, word, v) ==
    IF i + Len(word) - 1 <= Len(b) /\ SubSeq(b, i, i + Len(word) - 1) = word
    THEN Parsed(v, i + Len(word))
    ELSE Fail

\* the characters after an opening quote, up to the closing one
RECURSIVE parse_str(_, _, _)
parse_str(b, i, acc) ==
    CASE At(b, i) = "EOF" -> Fail
      [] At(b, i) = QUOTE -> Parsed(Str(acc), i + 1)
      [] At(b, i) = BACKSLASH ->
            IF At(b, i + 1) \in {QUOTE, BACKSLASH}
            THEN parse_str(b, i + 2, Append(acc, At(b, i + 1)))
            ELSE Fail
      [] OTHER -> parse_str(b, i + 1, Append(acc, At(b, i)))

RECURSIVE scan_digits(_, _)
scan_digits(b, i) == IF IsDigit(At(b, i)) THEN scan_digits(b, i + 1) ELSE i

\* -? (0 | [1-9][0-9]*) (. [0-9]+)?
parse_number(b, i) ==
    LET start == IF At(b, i) = "-" THEN i + 1 ELSE i
        intEnd == scan_digits(b, start)
        fracEnd == IF At(b, intEnd) = "." THEN scan_digits(b, intEnd + 1) ELSE intEnd
    IN  IF intEnd = start THEN Fail
        ELSE IF At(b, start) = "0" /\ intEnd > start + 1 THEN Fail
        ELSE IF At(b, intEnd) = "." /\ fracEnd = intEnd + 1 THEN Fail
        ELSE Parsed(Num(SubSeq(b, i, fracEnd - 1)), fracEnd)

RECURSIVE parse_value(_, _), parse_elems(_, _, _), parse_members(_, _, _)
parse_value(b, i0) ==
    LET i == skip_ws(b, i0)
        ch == At(b, i)
    IN  CASE ch = "n" -> parse_ident(b, i, <<"n", "u", "l", "l">>, Null)
          [] ch = "t" -> parse_ident(b, i, Bool(TRUE).s, Bool(TRUE))
          [] ch = "f" -> parse_ident(b, i, Bool(FALSE).s, Bool(FALSE))
          [] ch = QUOTE -> parse_str(b, i + 1, <<>>)
          [] ch = "-" \/ IsDigit(ch) -> parse_number(b, i)
          [] ch = "[" ->
                IF At(b, skip_ws(b, i + 1)) = "]"
                THEN Parsed(Arr(<<>>), skip_ws(b, i + 1) + 1)
                ELSE parse_elems(b, i + 1, <<>>)
          [] ch = "{" ->
                IF At(b, skip_ws(b, i + 1)) = "}"
                THEN Parsed(Obj(<<>>), skip_ws(b, i + 1) + 1)
                ELSE parse_members(b, i + 1, <<>>)
          [] OTHER -> Fail

parse_elems(b, i, acc) ==
    LET r == parse_value(b, i)
        j == skip_ws(b, r.i)
    IN  IF ~r.ok THEN Fail
        ELSE CASE At(b, j) = "," -> parse_elems(b, j + 1, Append(acc, r.v))
               [] At(b, j) = "]" -> Parsed(Arr(Append(acc, r.v)), j + 1)
               [] OTHER -> Fail

parse_members(b, i0, acc) ==
    LET i == skip_ws(b, i0)
        key == IF At(b, i) = QUOTE THEN parse_str(b, i + 1, <<>>) ELSE Fail
        colon == skip_ws(b, key.i)
        r == IF key.ok /\ At(b, colon) = ":" THEN parse_value(b, colon + 1) ELSE Fail
        j == skip_ws(b, r.i)
    IN  IF ~r.ok THEN Fail
        ELSE CASE At(b, j) = "," ->
                    parse_members(b, j + 1, MapInsert(acc, key.v.s, r.v))
               [] At(b, j) = "}" ->
                    Parsed(Obj(MapInsert(acc, key.v.s, r.v)), j + 1)
               [] OTHER -> Fail

\* Ok(value) when the bytes are one JSON value and nothing else
from_slice(b) ==
    LET r == parse_value(b, 1)
    IN  IF r.ok /\ skip_ws(b, r.i) > Len(b) THEN [ok |-> TRUE, v |-> r.v]
        ELSE [ok |-> FALSE, v |-> Null]

----------------------------------------------------------------------------
(* str helpers of the Rust standard library *)

RECURSIVE trim_start(_)
trim_start(text) ==
    IF text # <<>> /\ is_whitespace(Head(text)) THEN trim_start(Tail(text)) ELSE text

RECURSIVE trim_end(_)
trim_end(text) ==
    IF text # <<>> /\ is_whitespace(text[Len(text)])
    THEN trim_end(SubSeq(text, 1, Len(text) - 1))
    ELSE text

trim(text) == trim_end(trim_start(text))

\* str::trim_matches(ch): every leading and every trailing ch is removed
RECURSIVE trim_matches(_, _)
trim_matches(text, ch) ==
    IF text # <<>> /\ Head(text) = ch THEN trim_matches(Tail(text), ch)
    ELSE IF text # <<>> /\ text[Len(text)] = ch
    THEN trim_matches(SubSeq(text, 1, Len(text) - 1), ch)
    ELSE text

starts_with(text, ch) == text # <<>> /\ Head(text) = ch

\* str::find(ch): the 0-based offset of the first ch, -1 for None
find(text, ch) ==
    IF \E i \in DOMAIN text : text[i] = ch
    THEN (CHOOSE i \in DOMAIN text :
            text[i] = ch /\ \A j \in 1..(i - 1) : text[j] # ch) - 1
    ELSE -1

\* str::split(sep): the pieces between separators, empty pieces kept
RECURSIVE split(_, _)
split(text, sep) ==
    LET at == find(text, sep)
    IN  IF at = -1 THEN <<text>>
        ELSE <<SubSeq(text, 1, at)>> \o split(SubSeq(text, at + 2, Len(text)), sep)

\* Iterator<Item = String>::collect::<String>(): the pieces concatenated
RECURSIVE collect_String(_)
collect_String(pieces) ==
    IF pieces = <<>> THEN <<>> ELSE Head(pieces) \o collect_String(Tail(pieces))

\* str::parse::<i32>: an optional sign, then one or more digits; the value
\* is accumulated with checked arithmetic, towards I32_MIN after a minus
\* sign, and the parse fails on overflow
I32_MAX == 2147483647
I32_MIN == (0 - I32_MAX) - 1

RECURSIVE checked_digits(_, _, _)
checked_digits(text, acc, negative) ==
    IF text = <<>> THEN [ok |-> TRUE, n |-> acc]
    ELSE IF ~IsDigit(Head(text)) THEN [ok |-> FALSE, n |-> 0]
    ELSE LET d == DigitVal(Head(text))
         IN  IF negative
             THEN (IF acc < (I32_MIN + d) \div 10 + (IF (I32_MIN + d) % 10 = 0 THEN 0 ELSE 1)
                   THEN [ok |-> FALSE, n |-> 0]
                   ELSE checked_digits(Tail(text), acc * 10 - d, negative))
             ELSE (IF acc > (I32_MAX - d) \div 10
                   THEN [ok |-> FALSE, n |-> 0]
                   ELSE checked_digits(Tail(text), acc * 10 + d, negative))

parse_i32(text) ==
    LET signed == text # <<>> /\ Head(text) \in {"+", "-"}
        digits == IF signed THEN Tail(text) ELSE text
    IN  IF digits = <<>> THEN [ok |-> FALSE, n |-> 0]
        ELSE checked_digits(digits, 0, signed /\ Head(text) = "-")

----------------------------------------------------------------------------
(* The query language: lex_string, parse_query *)

LexOk(s, remaining) == [ok |-> TRUE, s |-> s, rest |-> remaining, err |-> ""]
LexErr(msg) == [ok |-> FALSE, s |-> <<>>, rest |-> <<>>, err |-> msg]

\* lex_string: a quoted string up to the next quote (no escapes), or a
\* maximal run of alphanumerics and dots
lex_string(input0) ==
    LET input == trim_start(input0)
    IN  IF starts_with(input, QUOTE)
        THEN LET found == find(Tail(input), QUOTE)
                 end == found + 1
             IN  IF found = -1 THEN LexErr("Expected end of quoted string")
                 ELSE LexOk(SubSeq(input, 2, end), SubSeq(input, end + 2, Len(input)))
        ELSE LET stops == {i \in DOMAIN input :
                             ~is_alphanumeric(input[i]) /\ input[i] # "."}
                 end == IF stops = {} THEN Len(input)
                        ELSE (CHOOSE i \in stops : \A j \in stops : i <= j) - 1
             IN  IF end = 0 THEN LexErr("No string found")
                 ELSE LexOk(SubSeq(input, 1, end), SubSeq(input, end + 1, Len(input)))

QueryCondition(key, value, op) == [key |-> key, value |-> value, op |-> op]

QueryOk(conditions) ==
    [done |-> FALSE, ok |-> TRUE, conditions |-> conditions, err |-> ""]
QueryErr(msg) ==
    [done |-> FALSE, ok |-> FALSE, conditions |-> <<>>, err |-> msg]

\* the key handed to QueryCondition::new: the pieces of the path token
\* collected into one String
condition_key(token) == collect_String(split(token, "."))

\* one turn of parse_query's while loop on the rest of the text
RECURSIVE parse_conditions(_, _)
parse_conditions(query, parsed) ==
    IF query = <<>> THEN QueryOk(parsed)
    ELSE
      LET key == lex_string(query)
          afterKey == trim_start(key.rest)
          afterColon == trim_start(Tail(afterKey))
          hasOp == afterColon # <<>> /\ Head(afterColon) \in {">", "<"}
          op == IF hasOp THEN Head(afterColon) ELSE "="
          afterOp == IF hasOp THEN trim_start(Tail(afterColon)) ELSE afterColon
          value == lex_string(afterOp)
      IN  IF ~key.ok THEN QueryErr(key.err)
          ELSE IF ~starts_with(afterKey, ":") THEN QueryErr("Expected colon")
          ELSE IF ~value.ok THEN QueryErr(value.err)
          ELSE parse_conditions(
                 trim_start(value.rest),
                 Append(parsed, QueryCondition(condition_key(key.s), value.s, op)))

parse_query(q) == parse_conditions(trim_start(q), <<>>)

----------------------------------------------------------------------------
(* The evaluator: get_value_from_doc, Query::matches *)

RECURSIVE get_value_from_doc(_, _)
get_value_from_doc(current, parts) ==
    IF parts = <<>> THEN current
    ELSE LET part == trim(Head(parts))
         IN  IF part = <<>> THEN get_value_from_doc(current, Tail(parts))
             ELSE IF ~HasKey(current, part) THEN Null
             ELSE get_value_from_doc(ValueGet(current, part), Tail(parts))

\* value.to_string().trim_matches('"').parse::<i32>()
operand_of_value(value) == parse_i32(trim_matches(to_string(value), QUOTE))

\* The body of the loop of Query::matches for one condition: "true" when the
\* loop goes on, "false" for return false, "panic" when an unwrap or the
\* operator match panics.
eval_condition(condition, doc) ==
    LET value == get_value_from_doc(doc, split(condition.key, "."))
        lhs == operand_of_value(value)
        rhs == parse_i32(condition.value)
    IN  IF value.t = "null" THEN "false"
        ELSE CASE condition.op = "=" ->
                    IF value.t = "str" /\ value.s = condition.value
                    THEN "true" ELSE "false"
               [] condition.op = ">" ->
                    IF ~lhs.ok \/ ~rhs.ok THEN "panic"
                    ELSE IF lhs.n > rhs.n THEN "true" ELSE "false"
               [] condition.op = "<" ->
                    IF ~lhs.ok \/ ~rhs.ok THEN "panic"
                    ELSE IF lhs.n < rhs.n THEN "true" ELSE "false"
               [] OTHER -> "panic"

\* A variant of Query::matches without the early return: every condition is
\* evaluated, and a failing one decides wherever it stands.
matches_all_conditions(query, doc) ==
    LET outs == {eval_condition(query.conditions[i], doc) : i \in DOMAIN query.conditions}
    IN  [res |-> IF "panic" \in outs THEN "panic"
                 ELSE IF "false" \in outs THEN "false" ELSE "true",
         evaluated |-> Len(query.conditions)]

\* Query::matches from condition i on: the result and the number of
\* conditions the loop evaluated
RECURSIVE matches_from(_, _, _)
matches_from(conditions, i, doc) ==
    IF i > Len(conditions) THEN [res |-> "true", evaluated |-> i - 1]
    ELSE LET r == eval_condition(conditions[i], doc)
         IN  IF r = "true" THEN matches_from(conditions, i + 1, doc)
             ELSE [res |-> r, evaluated |-> i]

matches(query, doc) == matches_from(query.conditions, 1, doc)

----------------------------------------------------------------------------
(* Bounds and the inputs drawn from them *)

\* puts per run of the server
MaxPuts == 2
\* conditions in a generated query text
MaxConds == 2
\* length of the query texts that are enumerated exhaustively
MaxTextLen == 4

\* Document ids: Uuid::new_v4().to_string() is an opaque key; the engine
\* iterates keys in byte order, here the order of the integers.
Ids == 1..(MaxPuts + 1)

D_ax == Obj(<<Member(<<"a">>, Str(<<"x">>))>>)
D_a7 == Obj(<<Member(<<"a">>, Str(<<"7">>))>>)
D_a5 == Obj(<<Member(<<"a">>, Num(<<"5">>))>>)
D_a_bx == Obj(<<Member(<<"a">>, Obj(<<Member(<<"b">>, Str(<<"x">>))>>))>>)

\* the request bodies of POST /docs
StoreDocs == {D_ax, D_a7, D_a5, D_a_bx}

\* bytes no JSON parser accepts: a record cut short in the data directory
CorruptBytes == <<"{", QUOTE, "a", QUOTE>>

\* the q parameters of GET /docs
SearchTexts ==
    { <<>>,
      <<"a", ":", QUOTE, "x", QUOTE>>,
      <<"a", ":", ">", "5">>,
      <<"a", ":">>,
      <<"a">>,
      <<QUOTE, "a">> }

----------------------------------------------------------------------------
(* The server *)

VARIABLES
    docs,      \* Server.docs: the engine's records, key -> bytes
    issued,    \* history: the (id, document) of every add_document, in order
    resp,      \* the outcome of the last request
    qtext,     \* query evaluation alone: the query text
    compiled,  \* ... the result of parse_query on it
    evald      \* ... the document evaluated and the result of Query::matches

vars == <<docs, issued, resp, qtext, compiled, evald>>

NoReply ==
    [op |-> "none", status |-> "", id |-> 0, q |-> <<>>, body |-> Null,
     documents |-> <<>>, count |-> 0, scanned |-> 0, detail |-> ""]

\* a panicking handler: the task unwinds and the request gets no response
Panic(op) == [NoReply EXCEPT !.op = op, !.status = "panic"]

NoQuery == [done |-> FALSE, ok |-> FALSE, conditions |-> <<>>, err |-> ""]
NoEval == [done |-> FALSE, doc |-> Null, res |-> "", evaluated |-> 0]

\* DB::put_opt: the record under key is written, an old one replaced
put_opt(store, key, value) ==
    [k \in DOMAIN store \cup {key} |-> IF k = key THEN value ELSE store[k]]

\* A variant of the id source that may repeat a token in use.
new_v4_any(used) == Ids

\* Uuid::new_v4(): a random 122-bit token; it repeats no token in use
new_v4(used) == Ids \ used

IssuedIds == {issued[i].id : i \in DOMAIN issued}

\* Server::add_document
add_document(document) ==
    /\ Len(issued) < MaxPuts
    /\ \E id \in new_v4(DOMAIN docs \cup IssuedIds) :
         /\ docs' = put_opt(docs, id, to_string(document))
         /\ issued' = Append(issued, [id |-> id, doc |-> document])
         /\ resp' = [NoReply EXCEPT !.op = "add", !.status = "201", !.id = id]
    /\ UNCHANGED <<qtext, compiled, evald>>

\* serde_json::from_str::<HashMap<String, String>>: an object whose values
\* are all strings
from_str_HashMap(bytes) ==
    LET r == from_slice(bytes)
    IN  IF r.ok /\ r.v.t = "obj" /\ \A i \in DOMAIN r.v.c : r.v.c[i].v.t = "str"
        THEN [ok |-> TRUE, v |-> r.v]
        ELSE [ok |-> FALSE, v |-> Null]

\* Server::get_document_by_id: both unwraps panic, on a missing key and on
\* bytes that are no map of strings
get_document_by_id(store, id) ==
    IF id \notin DOMAIN store THEN [panic |-> TRUE, v |-> Null]
    ELSE LET doc == from_str_HashMap(store[id])
         IN  IF ~doc.ok THEN [panic |-> TRUE, v |-> Null]
             ELSE [panic |-> FALSE, v |-> doc.v]

\* Server::get_document
get_document_reply(store, id) ==
    LET doc == get_document_by_id(store, id)
    IN  IF doc.panic THEN [Panic("get") EXCEPT !.id = id]
        ELSE [NoReply EXCEPT !.op = "get", !.id = id, !.body = doc.v,
                !.status = IF doc.v.t = "null" THEN "404" ELSE "200"]

get_document(id) ==
    /\ resp' = get_document_reply(docs, id)
    /\ UNCHANGED <<docs, issued, qtext, compiled, evald>>

\* DB::iterator(IteratorMode::Start): the records in key order
RECURSIVE db_iterator(_, _)
db_iterator(store, keys) ==
    IF keys = {} THEN <<>>
    ELSE LET k == CHOOSE x \in keys : \A y \in keys : x <= y
         IN  <<[key |-> k, value |-> store[k]]>> \o db_iterator(store, keys \ {k})

\* A variant of the push that puts the newest match first.
push_front(documents, key, document) ==
    <<[id |-> key, body |-> document]>> \o documents

\* documents.push(json!({"id": .., "body": ..}))
push(documents, key, document) == Append(documents, [id |-> key, body |-> document])

server_error(q, detail, scanned) ==
    [NoReply EXCEPT !.op = "search", !.status = "500", !.q = q,
       !.detail = detail, !.scanned = scanned]

\* A variant of the loop that skips a record that does not deserialize.
RECURSIVE scan_skipping_bad_records(_, _, _, _, _, _)
scan_skipping_bad_records(q, query, entries, i, failAt, documents) ==
    IF i > Len(entries)
    THEN [NoReply EXCEPT !.op = "search", !.status = "200", !.q = q,
            !.documents = documents, !.count = Len(documents),
            !.scanned = Len(entries)]
    ELSE IF i = failAt THEN server_error(q, "Database error", i)
    ELSE LET document == from_slice(entries[i].value)
             m == matches(query, document.v)
         IN  IF ~document.ok
             THEN scan_skipping_bad_records(q, query, entries, i + 1, failAt, documents)
             ELSE IF m.res = "panic"
             THEN [Panic("search") EXCEPT !.q = q, !.scanned = i]
             ELSE scan_skipping_bad_records(
                    q, query, entries, i + 1, failAt,
                    IF m.res = "true"
                    THEN push(documents, entries[i].key, document.v)
                    ELSE documents)

\* The for loop of Server::search_documents from entry i on; failAt is the
\* entry at which the engine's iterator yields Err (0: none).
RECURSIVE scan(_, _, _, _, _, _)
scan(q, query, entries, i, failAt, documents) ==
    IF i > Len(entries)
    THEN [NoReply EXCEPT !.op = "search", !.status = "200", !.q = q,
            !.documents = documents, !.count = Len(documents),
            !.scanned = Len(entries)]
    ELSE IF i = failAt THEN server_error(q, "Database error", i)
    ELSE LET document == from_slice(entries[i].value)
             m == matches(query, document.v)
         IN  IF ~document.ok
             THEN server_error(q, "Error deserializing document", i)
             ELSE IF m.res = "panic"
             THEN [Panic("search") EXCEPT !.q = q, !.scanned = i]
             ELSE scan(q, query, entries, i + 1, failAt,
                       IF m.res = "true"
                       THEN push(documents, entries[i].key, document.v)
                       ELSE documents)

\* A variant of the handler that walks the store before it looks at the
\* result of parse_query.
search_reply_scan_first(store, q, failAt) ==
    LET query == parse_query(q)
        walked == scan(q, IF query.ok THEN query ELSE QueryOk(<<>>),
                       db_iterator(store, DOMAIN store), 1, failAt, <<>>)
    IN  IF ~query.ok
        THEN [NoReply EXCEPT !.op = "search", !.status = "400", !.q = q,
                !.detail = query.err, !.scanned = walked.scanned]
        ELSE walked

\* Server::search_documents
search_reply(store, q, failAt) ==
    LET query == parse_query(q)
    IN  IF ~query.ok
        THEN [NoReply EXCEPT !.op = "search", !.status = "400", !.q = q,
                !.detail = query.err]
        ELSE scan(q, query, db_iterator(store, DOMAIN store), 1, failAt, <<>>)

search_documents(q, failAt) ==
    /\ resp' = search_reply(docs, q, failAt)
    /\ UNCHANGED <<docs, issued, qtext, compiled, evald>>

\* Server::new opens the data directory as it is: empty, or holding a
\* record whose bytes are damaged
InitialStores ==
    {<<>>} \cup {[k \in {id} |-> CorruptBytes] : id \in Ids}

Init ==
    /\ docs \in InitialStores
    /\ issued = <<>>
    /\ resp = NoReply
    /\ qtext = <<>>
    /\ compiled = NoQuery
    /\ evald = NoEval

Next ==
    \/ \E document \in StoreDocs : add_document(document)
    \/ \E id \in Ids : get_document(id)
    \/ \E q \in SearchTexts : \E failAt \in 0..Cardinality(DOMAIN docs) :
         search_documents(q, failAt)

Spec == Init /\ [][Next]_vars

----------------------------------------------------------------------------
(* Query compilation and evaluation on their own: parse_query on a text,   *)
(* then Query::matches of the compiled query on a document.                *)

\* the characters of the exhaustively enumerated texts
TextAlphabet == {"a", ".", ":", QUOTE, ">", " ", "5"}

ShortTexts == UNION {[1..n -> TextAlphabet] : n \in 0..MaxTextLen}

\* the tokens of the generated texts
PathTokens == {<<"a">>, <<"b">>, <<"a", ".", "b">>}
Operators == {"=", ">", "<"}
Literals == {<<"x">>, <<"5">>}

GenConditions ==
    {QueryCondition(k, v, op) : k \in PathTokens, v \in Literals, op \in Operators}

GenQueries == UNION {[1..n -> GenConditions] : n \in 0..MaxConds}

\* the text of a condition, path ':' [operator] value
RenderCondition(c) ==
    c.key \o <<":">> \o (IF c.op = "=" THEN <<>> ELSE <<c.op>>) \o c.value

RECURSIVE Render(_)
Render(conds) ==
    IF conds = <<>> THEN <<>>
    ELSE RenderCondition(Head(conds))
         \o (IF Len(conds) > 1 THEN <<" ">> ELSE <<>>) \o Render(Tail(conds))

QueryTexts == ShortTexts \cup {Render(cs) : cs \in GenQueries}

Leaves ==
    {Null, Bool(TRUE), Num(<<"7">>), Str(<<"x">>), Str(<<"3">>), Str(<<>>)}

EvalDocs ==
    Leaves
    \cup {Obj(<<Member(<<"a">>, v)>>) : v \in Leaves}
    \cup {Obj(<<Member(<<"a", "b">>, v)>>) : v \in Leaves}
    \cup {Obj(<<Member(<<"a">>, Obj(<<Member(<<"b">>, v)>>))>>) : v \in Leaves}
    \cup {Obj(<<Member(<<"a">>, v), Member(<<"b">>, w)>>) :
            v \in {Num(<<"7">>), Str(<<"x">>), Str(<<"3">>)},
            w \in {Num(<<"7">>), Str(<<"x">>), Str(<<"3">>)}}
    \cup {Obj(<<Member(<<"a">>, Arr(<<Str(<<"x">>)>>))>>),
          Obj(<<Member(<<"a">>, Obj(<<Member(<<"b">>, Str(<<"x">>))>>)),
                Member(<<"a", "b">>, Str(<<"3">>))>>)}

compile ==
    /\ ~compiled.done
    /\ compiled' = [parse_query(qtext) EXCEPT !.done = TRUE]
    /\ UNCHANGED <<docs, issued, resp, qtext, evald>>

evaluate(doc) ==
    /\ compiled.done /\ compiled.ok /\ ~evald.done
    /\ LET m == matches(compiled, doc)
       IN  evald' = [done |-> TRUE, doc |-> doc, res |-> m.res,
                     evaluated |-> m.evaluated]
    /\ UNCHANGED <<docs, issued, resp, qtext, compiled>>

InitQuery ==
    /\ qtext \in QueryTexts
    /\ compiled = NoQuery
    /\ evald = NoEval
    /\ docs = <<>>
    /\ issued = <<>>
    /\ resp = NoReply

NextQuery ==
    \/ compile
    \/ \E doc \in EvalDocs : evaluate(doc)

SpecQuery == InitQuery /\ [][NextQuery]_vars

----------------------------------------------------------------------------
(* Properties of the server (checked under Spec) *)

\* the records as the scan of the last search met them
Entries == db_iterator(docs, DOMAIN docs)

\* the positions of the records whose bytes do not deserialize
BadEntries == {i \in DOMAIN Entries : ~from_slice(Entries[i].value).ok}

DocumentAt(i) == from_slice(Entries[i].value).v

LastQuery == parse_query(resp.q)

MatchedAt(i) ==
    /\ from_slice(Entries[i].value).ok
    /\ matches(LastQuery, DocumentAt(i)).res = "true"

IdBody(entry) == [id |-> entry.key, body |-> from_slice(entry.value).v]

\* the (id, document) pairs of the matching records, in iteration order
MatchingRecords ==
    LET Matched(entry) ==
            /\ from_slice(entry.value).ok
            /\ matches(LastQuery, from_slice(entry.value).v).res = "true"
        kept == SelectSeq(Entries, Matched)
    IN  [i \in DOMAIN kept |-> IdBody(kept[i])]

\* an ordering condition on a present value, one of whose sides is no i32
OperandFails(c, doc) ==
    LET value == get_value_from_doc(doc, split(c.key, "."))
    IN  /\ c.op \in {">", "<"}
        /\ value.t # "null"
        /\ (~operand_of_value(value).ok \/ ~parse_i32(c.value).ok)

\* the scan of the last search evaluated such a condition on record i
EvaluationErrorAt(i) ==
    /\ LastQuery.ok
    /\ from_slice(Entries[i].value).ok
    /\ \E n \in 1..matches(LastQuery, DocumentAt(i)).evaluated :
         OperandFails(LastQuery.conditions[n], DocumentAt(i))

\* C1: a search whose scan reaches a document on which an ordering
\* condition has a non-integer operand ends with a server-error response
\* (an EvaluationError), and returns no result list.
C1_EvaluationErrorIsServerError ==
    resp.op = "search" =>
      \A i \in 1..resp.scanned :
        EvaluationErrorAt(i) =>
          /\ resp.status = "500"
          /\ resp.documents = <<>>

\* C3: a search that completes without error returns exactly the stored
\* (id, document) pairs whose document matches the query, each once, in the
\* engine's iteration order, with count the length of the list; the empty
\* query returns every stored record.
C3_SearchReturnsMatchingRecords ==
    (resp.op = "search" /\ resp.status = "200") =>
      /\ resp.documents = MatchingRecords
      /\ resp.count = Len(resp.documents)
      /\ resp.q = <<>> =>
           resp.documents = [i \in DOMAIN Entries |-> IdBody(Entries[i])]

\* two records stored, the query keeps one of them and drops the other
C3_Witness ==
    /\ resp.op = "search" /\ resp.status = "200"
    /\ resp.q # <<>>
    /\ Len(issued) = 2
    /\ resp.count = 1
    /\ Len(Entries) = 2

\* C4: a search ends with the full result set or with one error.  A record
\* that fails to deserialize (or an engine iteration error) stops the scan
\* at that record with one server-error response; no document matched
\* before it is delivered, and a bad record is never skipped.
C4_ScanAbortsOnBadRecord ==
    resp.op = "search" =>
      /\ resp.status \in {"200", "400", "500", "panic"}
      /\ resp.status = "200" =>
           /\ resp.scanned = Len(Entries)
           /\ BadEntries = {}
           /\ resp.documents = MatchingRecords
      /\ resp.status # "200" => (resp.documents = <<>> /\ resp.count = 0)
      /\ \A i \in BadEntries : resp.scanned <= i
      /\ resp.scanned \in BadEntries =>
           /\ resp.status = "500"
           /\ resp.detail \in {"Error deserializing document", "Database error"}
      /\ resp.detail = "Database error" => resp.status = "500"

\* the scan matched a document, then met a record that does not deserialize
C4_Witness ==
    /\ resp.op = "search" /\ resp.status = "500"
    /\ resp.detail = "Error deserializing document"
    /\ resp.scanned \in BadEntries
    /\ \E j \in 1..(resp.scanned - 1) : MatchedAt(j)
    /\ resp.documents = <<>>

\* C5: get of the id returned by put(D) returns a document equal to D.
C5_RoundTrip ==
    resp.op = "get" =>
      \A i \in DOMAIN issued :
        issued[i].id = resp.id =>
          (resp.status = "200" /\ resp.body = issued[i].doc)

\* C6: get on an id that no put issued returns the not-found status.
C6_UnusedIdIsNotFound ==
    (resp.op = "get" /\ resp.id \notin DOMAIN docs \cup IssuedIds) =>
      resp.status = "404"

\* C7: a search whose query text fails to compile is rejected before the
\* scan: no record is read or deserialized and the response is a client
\* error carrying the parse error, whatever the store holds.
C7_ParseErrorBeforeScan ==
    (resp.op = "search" /\ ~LastQuery.ok) =>
      /\ resp.status = "400"
      /\ resp.detail = LastQuery.err
      /\ resp.scanned = 0
      /\ resp.documents = <<>>

\* `a:` is rejected for its missing value while the store holds a document
\* and a record that does not deserialize
C7_Witness ==
    /\ resp.op = "search"
    /\ resp.q = <<"a", ":">>
    /\ resp.status = "400"
    /\ resp.detail = "No string found"
    /\ BadEntries # {}
    /\ Len(Entries) > Cardinality(BadEntries)

\* C8: the ids returned by put are pairwise distinct, and every id issued
\* so far still maps to the document it was issued for.
C8_AppendOnlyUniqueIds ==
    /\ \A i, j \in DOMAIN issued : i # j => issued[i].id # issued[j].id
    /\ \A i \in DOMAIN issued :
         /\ issued[i].id \in DOMAIN docs
         /\ from_slice(docs[issued[i].id]) = [ok |-> TRUE, v |-> issued[i].doc]

\* two puts of different documents, both still stored
C8_Witness ==
    /\ Len(issued) = 2
    /\ issued[1].doc # issued[2].doc
    /\ resp.op = "add"

----------------------------------------------------------------------------
(* Properties of the query language (checked under SpecQuery) *)

Conditions == compiled.conditions

\* what each condition of the compiled query yields on the document
Outcome(i) == eval_condition(Conditions[i], evald.doc)

Deciding == {i \in DOMAIN Conditions : Outcome(i) # "true"}

FirstDeciding == CHOOSE i \in Deciding : \A j \in Deciding : i <= j

\* C2: a condition compiled from a text whose path token has dots tests the
\* value reached by splitting the token on `.` and looking up each segment
\* as an object key.
C2_DottedPathIsSplit ==
    evald.done =>
      \A c \in GenConditions :
        (qtext = Render(<<c>>) /\ "." \in Range(c.key)) =>
          evald.res = eval_condition(c, evald.doc)

\* C9: matches is the conjunction of the conditions in query order and
\* stops at the first condition that does not match or fails: the result is
\* that condition's, later conditions are not evaluated, and a query
\* without conditions matches.
C9_ShortCircuitInOrder ==
    evald.done =>
      IF Deciding = {}
      THEN evald.res = "true" /\ evald.evaluated = Len(Conditions)
      ELSE evald.res = Outcome(FirstDeciding) /\ evald.evaluated = FirstDeciding

\* a condition that does not match, placed before one that fails
C9_Witness ==
    /\ evald.done
    /\ Len(Conditions) = 2
    /\ Outcome(1) = "false"
    /\ Outcome(2) = "panic"
    /\ evald.res = "false"
    /\ evald.evaluated = 1

\* C10: no compiled query has a condition with an empty path or an empty
\* literal; a text with such a token fails with "No string found".
C10_NoEmptyToken ==
    compiled.done =>
      /\ compiled.ok =>
           \A i \in DOMAIN Conditions :
             Conditions[i].key # <<>> /\ Conditions[i].value # <<>>
      /\ qtext \in {<<"a", ":", QUOTE, QUOTE>>, <<QUOTE, QUOTE, ":", "a">>} =>
           (~compiled.ok /\ compiled.err = "No string found")

====
